---- MODULE Spec2Model ----
(***************************************************************************)
(* Request-scoped context (app/core/context.py, app/core/middleware.py,    *)
(* app/api/deps.py) and the audit-logging pipeline                         *)
(* (app/abstractions/audit_logger.py, app/models/audit_log.py) of the      *)
(* multi-tenant backend.                                                   *)
(*                                                                         *)
(* SpecAudit   : DatabaseAuditLogger.log / query over SQLAlchemy sessions  *)
(*               that flush, commit and roll back.                         *)
(* SpecContext : request tasks, the _request_context ContextVar, identity  *)
(*               resolution and AuditEntry.from_context.                   *)
(* SpecTx      : handlers that log and write to the users table through    *)
(*               one session (app/api/users.py, app/api/auth.py).          *)
(* SpecQuery   : DatabaseAuditLogger.query with its result, over stores    *)
(*               of committed rows.                                        *)
(* SpecFallback: LoggingAuditLogger.                                       *)
(* SpecRequest : one request from dispatch to completion, with every      *)
(*               kind of inbound metadata.                                 *)
(* SpecPipeline: a handler that logs the entry from_context builds, and    *)
(*               queries by tenant.                                        *)
(* SpecUsers   : the user-administration endpoints (app/api/users.py).     *)
(***************************************************************************)
EXTENDS Integers, Sequences, FiniteSets, TLC

VARIABLES
    committed,  \* audit_logs rows of committed transactions
    pending,    \* pending[s]: rows session s has flushed and not committed
    inflight,   \* inflight[s]: AuditLog objects added to s, flush awaited
    sstate,     \* sstate[s]: "active", or "inactive" after a failed flush
    nlogs,      \* number of log calls started so far
    last,       \* the most recent completed call and its outcome
    cv,         \* cv[t]: what _request_context holds in task t's context
    heap,       \* heap[r]: the RequestContext object request r's dispatch made
    pc,         \* pc[r]: where request r is
    nres,       \* number of identity resolutions run so far
    ret,        \* the most recent context call and what it returned
    dirty,      \* dirty[s]: users-table writes session s has not committed
    durable,    \* users-table writes of committed transactions
    stream,     \* the records the module's logger has emitted
    fret,       \* the most recent LoggingAuditLogger call and its outcome
    qret,       \* the most recent query call, its filters and its result
    inb,        \* inb[r]: the inbound metadata request r arrived with
    utable,     \* the committed rows of the users table
    uret        \* the most recent user-administration call and its answer

auditVars == <<committed, pending, inflight, sstate, nlogs, last>>

ctxVars == <<cv, heap, pc, nres, ret, inb>>

txVars == <<dirty, durable>>

admVars == <<utable, uret>>

extVars == <<stream, fret, qret, utable, uret>>

vars == <<committed, pending, inflight, sstate, nlogs, last,
          cv, heap, pc, nres, ret, dirty, durable, stream, fret, qret,
          inb, utable, uret>>

-----------------------------------------------------------------------------
(* Bounds *)

MaxLogs == 2        \* log calls per behaviour

MaxResolve == 2     \* get_current_user_optional calls per behaviour

MaxRows == 3        \* audit_logs rows in the store a query is run on

MaxStream == 2      \* records the logger emits per behaviour

Sessions == {"s1", "s2"}    \* one AsyncSession per concurrent request

-----------------------------------------------------------------------------
(* Values.  Python None is the string None for Optional[str] fields, NULL  *)
(* (0) for Optional UUID columns and NoTime (0) for Optional datetimes.    *)
(* UUID values are the positive integers; their 32-hex-digit spellings are *)
(* abbreviated to two hex digits.                                          *)

None == "<None>"

NULL == 0

NoTime == 0

Invalid == -1

\* uuid.UUID(s): hex digits are read case-insensitively, so "A1" and "a1"
\* are the same UUID; anything that is not hex digits raises ValueError.
ParseUUID(s) ==
    CASE s \in {"a1", "A1"} -> 1
      [] s \in {"b2", "B2"} -> 2
      [] s \in {"c3", "C3"} -> 3
      [] s \in {"e8", "E8"} -> 8
      [] s \in {"f9", "F9"} -> 9
      [] OTHER -> Invalid

\* str(uuid): the canonical lower-case spelling.
StrUUID(u) ==
    CASE u = 1 -> "a1"
      [] u = 2 -> "b2"
      [] u = 3 -> "c3"
      [] u = 8 -> "e8"
      [] u = 9 -> "f9"
      [] OTHER -> "??"

\* uuid4(): a random UUID, equal to no UUID the callers name.
Uuid4Values == {8, 9}

\* Python truthiness of an Optional[str]: None and "" are falsy.
Truthy(x) == x # None /\ x # ""

AuditActions ==
    {"create", "read", "update", "delete", "login", "logout", "login_failed",
     "export", "import", "grant_access", "revoke_access"}

DataClassifications == {"public", "internal", "confidential", "restricted"}

-----------------------------------------------------------------------------
(* AuditEntry values handed to log.                                        *)

BaseEntry ==
    [actor_id |-> "a1", actor_type |-> "user", actor_ip |-> None,
     action |-> "login", action_detail |-> None,
     resource_type |-> "user", resource_id |-> "r1",
     tenant_id |-> "a1", request_id |-> "c3", session_id |-> None,
     timestamp |-> 1,
     old_values |-> None, new_values |-> None,
     success |-> TRUE, error_message |-> None,
     data_classification |-> "internal"]

Entries ==
    { BaseEntry,
      [BaseEntry EXCEPT !.tenant_id = "b2", !.timestamp = 2,
                        !.action = "update", !.old_values = "{role:user}",
                        !.new_values = "{role:admin}",
                        !.data_classification = "confidential"],
      [BaseEntry EXCEPT !.tenant_id = "A1", !.timestamp = 2,
                        !.session_id = "c3", !.actor_ip = "10.0.0.1",
                        !.actor_id = "anonymous", !.action = "login_failed",
                        !.success = FALSE, !.error_message = "bad password"],
      [BaseEntry EXCEPT !.tenant_id = "default"] }

-----------------------------------------------------------------------------
(* DatabaseAuditLogger.log                                                 *)

\* The AuditLog(...) constructor call of log: every UUID(...) conversion
\* must succeed, otherwise ValueError leaves log before session.add.
LogAccepts(e) ==
    /\ (e.actor_id # "anonymous" => ParseUUID(e.actor_id) # Invalid)
    /\ ParseUUID(e.tenant_id) # Invalid
    /\ ParseUUID(e.request_id) # Invalid
    /\ (Truthy(e.session_id) => ParseUUID(e.session_id) # Invalid)

\* The AuditLog object log builds from entry e; anon is the uuid4() drawn
\* when the actor is "anonymous".  logged keeps the entry as handed in
\* (for stating properties only); the id column is filled in by the INSERT.
BuildAuditLog(e, anon) ==
    [logged |-> e, id |-> NULL,
     actor_id |-> IF e.actor_id # "anonymous" THEN ParseUUID(e.actor_id)
                  ELSE anon,
     actor_type |-> e.actor_type,
     actor_ip |-> e.actor_ip,
     action |-> e.action,
     action_detail |-> e.action_detail,
     resource_type |-> e.resource_type,
     resource_id |-> e.resource_id,
     tenant_id |-> ParseUUID(e.tenant_id),
     request_id |-> ParseUUID(e.request_id),
     session_id |-> IF Truthy(e.session_id) THEN ParseUUID(e.session_id)
                    ELSE NULL,
     timestamp |-> e.timestamp,
     old_values |-> e.old_values,
     new_values |-> e.new_values,
     success |-> e.success,
     error_message |-> e.error_message,
     data_classification |-> e.data_classification]

\* Every row some transaction holds, committed or not.
AllRows == committed \cup UNION {pending[s] : s \in Sessions}

\* What the statements of session s read: committed rows and its own
\* flushed ones.
Visible(s) == committed \cup pending[s]

\* AuditLog.id: primary_key=True, default=uuid.uuid4.  Up to renaming of
\* ids, the value drawn is the fresh one or one a stored row already has.
IdDefaults == {nlogs + 10} \cup {r.id : r \in AllRows}

\* Mutant of PrimaryKeyOk: the id column without its uniqueness constraint.
PrimaryKeyOff(i) == TRUE

\* The primary-key constraint of audit_logs.id.
PrimaryKeyOk(i) == \A r \in AllRows : r.id # i

Idle(s) == sstate[s] = "active" /\ inflight[s] = {}

\* Mutant of LogBegin: the write is handed to a background task, and the
\* request goes on to its next log call while the write is in flight.
LogBeginBackground(s) ==
    /\ sstate[s] = "active"
    /\ nlogs < MaxLogs
    /\ \E e \in Entries, anon \in Uuid4Values :
          /\ nlogs' = nlogs + 1
          /\ IF LogAccepts(e)
             THEN /\ inflight' = [inflight EXCEPT
                                    ![s] = @ \cup {BuildAuditLog(e, anon)}]
                  /\ UNCHANGED last
             ELSE /\ last' = [op |-> "log", sess |-> s, out |-> "ValueError",
                              id |-> NULL]
                  /\ UNCHANGED inflight
    /\ UNCHANGED <<committed, pending, sstate>>
    /\ UNCHANGED ctxVars
    /\ UNCHANGED <<txVars, extVars>>

\* log up to `await self._session.flush()`: the entry is converted and the
\* object added to the session; a failed conversion raises ValueError.
LogBegin(s) ==
    /\ Idle(s)
    /\ nlogs < MaxLogs
    /\ \E e \in Entries, anon \in Uuid4Values :
          /\ nlogs' = nlogs + 1
          /\ IF LogAccepts(e)
             THEN /\ inflight' = [inflight EXCEPT
                                    ![s] = {BuildAuditLog(e, anon)}]
                  /\ UNCHANGED last
             ELSE /\ last' = [op |-> "log", sess |-> s, out |-> "ValueError",
                              id |-> NULL]
                  /\ UNCHANGED inflight
    /\ UNCHANGED <<committed, pending, sstate>>
    /\ UNCHANGED ctxVars
    /\ UNCHANGED <<txVars, extVars>>

\* Mutant of LogFlushOk: the new row replaces the rows the session has
\* flushed instead of joining them.
LogFlushOverwrite(s) ==
    /\ sstate[s] = "active"
    /\ \E a \in inflight[s], i \in IdDefaults :
          /\ PrimaryKeyOff(i)
          /\ pending' = [pending EXCEPT ![s] = {[a EXCEPT !.id = i]}]
          /\ last' = [op |-> "log", sess |-> s, out |-> "ok", id |-> i]
    /\ inflight' = [inflight EXCEPT ![s] = {}]
    /\ UNCHANGED <<committed, sstate, nlogs>>
    /\ UNCHANGED ctxVars
    /\ UNCHANGED <<txVars, extVars>>

\* Mutant of LogFlushOk: the INSERT runs in a transaction of its own that
\* is committed at once, apart from what else the session has written.
LogFlushAutocommit(s) ==
    /\ sstate[s] = "active"
    /\ \E a \in inflight[s], i \in IdDefaults :
          /\ PrimaryKeyOk(i)
          /\ committed' = committed \cup {[a EXCEPT !.id = i]}
          /\ last' = [op |-> "log", sess |-> s, out |-> "ok", id |-> i]
    /\ inflight' = [inflight EXCEPT ![s] = {}]
    /\ UNCHANGED <<pending, sstate, nlogs>>
    /\ UNCHANGED ctxVars
    /\ UNCHANGED <<txVars, extVars>>

\* Mutant of LogFlushOk: an entry equal to a stored one is not written
\* again, and log returns the id of the stored row.
LogFlushDedup(s) ==
    /\ sstate[s] = "active"
    /\ \E a \in inflight[s], i \in IdDefaults :
          LET same == {r \in AllRows : r.logged = a.logged}
          IN  IF same # {}
              THEN /\ \E r \in same :
                        last' = [op |-> "log", sess |-> s, out |-> "ok",
                                 id |-> r.id]
                   /\ UNCHANGED pending
              ELSE /\ PrimaryKeyOk(i)
                   /\ pending' = [pending EXCEPT
                                     ![s] = @ \cup {[a EXCEPT !.id = i]}]
                   /\ last' = [op |-> "log", sess |-> s, out |-> "ok",
                               id |-> i]
    /\ inflight' = [inflight EXCEPT ![s] = {}]
    /\ UNCHANGED <<committed, sstate, nlogs>>
    /\ UNCHANGED ctxVars
    /\ UNCHANGED <<txVars, extVars>>

\* The flush completes: the INSERT is executed and log returns str(id).
LogFlushOk(s) ==
    /\ sstate[s] = "active"
    /\ \E a \in inflight[s], i \in IdDefaults :
          /\ PrimaryKeyOk(i)
          /\ pending' = [pending EXCEPT ![s] = @ \cup {[a EXCEPT !.id = i]}]
          /\ last' = [op |-> "log", sess |-> s, out |-> "ok",
                      id |-> i]
    /\ inflight' = [inflight EXCEPT ![s] = {}]
    /\ UNCHANGED <<committed, sstate, nlogs>>
    /\ UNCHANGED ctxVars
    /\ UNCHANGED <<txVars, extVars>>

\* Mutant of LogFlushFail: the failure of the flush is swallowed and log
\* returns an id although nothing was written.
LogFlushSwallow(s) ==
    /\ sstate[s] = "active"
    /\ inflight[s] # {}
    /\ last' = [op |-> "log", sess |-> s, out |-> "ok", id |-> nlogs + 10]
    /\ inflight' = [inflight EXCEPT ![s] = {}]
    /\ UNCHANGED <<committed, pending, sstate, nlogs>>
    /\ UNCHANGED ctxVars
    /\ UNCHANGED <<txVars, extVars>>

\* The flush fails (the id collides with a stored one, or the database is
\* unreachable): the exception leaves log, nothing is written and the
\* session refuses further statements until it is rolled back.
LogFlushFail(s) ==
    /\ sstate[s] = "active"
    /\ inflight[s] # {}
    /\ last' = [op |-> "log", sess |-> s, out |-> "DBAPIError", id |-> NULL]
    /\ sstate' = [sstate EXCEPT ![s] = "inactive"]
    /\ UNCHANGED <<committed, pending, inflight, nlogs>>
    /\ UNCHANGED ctxVars
    /\ UNCHANGED <<txVars, extVars>>

-----------------------------------------------------------------------------
(* The session's transaction, driven by the code that owns the session.    *)

\* Mutant of Commit: the transaction ends without its rows being kept.
CommitLosing(s) ==
    /\ Idle(s)
    /\ pending[s] # {}
    /\ pending' = [pending EXCEPT ![s] = {}]
    /\ last' = [op |-> "commit", sess |-> s, out |-> "ok", id |-> NULL]
    /\ UNCHANGED <<committed, inflight, sstate, nlogs>>
    /\ UNCHANGED ctxVars
    /\ UNCHANGED <<txVars, extVars>>

\* commit(): everything the session has written and not committed, audit
\* rows and users-table writes alike, is kept.
Commit(s) ==
    /\ Idle(s)
    /\ pending[s] # {} \/ dirty[s] # {}
    /\ committed' = committed \cup pending[s]
    /\ pending' = [pending EXCEPT ![s] = {}]
    /\ durable' = durable \cup dirty[s]
    /\ dirty' = [dirty EXCEPT ![s] = {}]
    /\ last' = [op |-> "commit", sess |-> s, out |-> "ok",
                id |-> NULL]
    /\ UNCHANGED <<inflight, sstate, nlogs>>
    /\ UNCHANGED ctxVars
    /\ UNCHANGED extVars

\* rollback(), also what closing a session without commit does.
Rollback(s) ==
    /\ \/ pending[s] # {} \/ inflight[s] # {} \/ sstate[s] = "inactive"
       \/ dirty[s] # {}
    /\ sstate[s] = "active" => inflight[s] = {}
    /\ pending' = [pending EXCEPT ![s] = {}]
    /\ inflight' = [inflight EXCEPT ![s] = {}]
    /\ dirty' = [dirty EXCEPT ![s] = {}]
    /\ sstate' = [sstate EXCEPT ![s] = "active"]
    /\ last' = [op |-> "rollback", sess |-> s, out |-> "ok",
                id |-> NULL]
    /\ UNCHANGED <<committed, nlogs, durable>>
    /\ UNCHANGED ctxVars
    /\ UNCHANGED extVars

-----------------------------------------------------------------------------
(* DatabaseAuditLogger.query                                               *)

DefaultLimit == 100

\* The keyword arguments of query; tenant_id is the one without a default.
NoFilter(t) ==
    [tenant_id |-> t, actor_id |-> None, resource_type |-> None,
     resource_id |-> None, action |-> None,
     start_time |-> NoTime, end_time |-> NoTime,
     limit |-> DefaultLimit, offset |-> 0]

\* UUID(tenant_id), and UUID(actor_id) under `if actor_id:`, raise
\* ValueError on a string that spells no UUID.
QueryAccepts(f) ==
    /\ ParseUUID(f.tenant_id) # Invalid
    /\ (Truthy(f.actor_id) => ParseUUID(f.actor_id) # Invalid)

\* Mutant of Matches: the tenant clause is dropped when an actor is given.
MatchesActorAnyTenant(r, f) ==
    /\ (~Truthy(f.actor_id) => r.tenant_id = ParseUUID(f.tenant_id))
    /\ (Truthy(f.actor_id) => r.actor_id = ParseUUID(f.actor_id))
    /\ (f.action # None => r.action = f.action)

\* Mutant of Matches: end_time is an exclusive bound.
MatchesBeforeEnd(r, f) ==
    /\ r.tenant_id = ParseUUID(f.tenant_id)
    /\ (Truthy(f.actor_id) => r.actor_id = ParseUUID(f.actor_id))
    /\ (Truthy(f.resource_type) => r.resource_type = f.resource_type)
    /\ (Truthy(f.resource_id) => r.resource_id = f.resource_id)
    /\ (f.action # None => r.action = f.action)
    /\ (f.start_time # NoTime => r.timestamp >= f.start_time)
    /\ (f.end_time # NoTime => r.timestamp < f.end_time)

\* The WHERE clauses: the tenant first, then one per filter that is truthy.
Matches(r, f) ==
    /\ r.tenant_id = ParseUUID(f.tenant_id)
    /\ (Truthy(f.actor_id) => r.actor_id = ParseUUID(f.actor_id))
    /\ (Truthy(f.resource_type) => r.resource_type = f.resource_type)
    /\ (Truthy(f.resource_id) => r.resource_id = f.resource_id)
    /\ (f.action # None => r.action = f.action)
    /\ (f.start_time # NoTime => r.timestamp >= f.start_time)
    /\ (f.end_time # NoTime => r.timestamp <= f.end_time)

\* Mutant of OrderByTimestampDesc: no ORDER BY, the rows come in any
\* order.
RECURSIVE Unordered(_)
Unordered(rows) ==
    IF rows = {} THEN {<<>>}
    ELSE UNION { { <<r>> \o rest : rest \in Unordered(rows \ {r}) } :
                 r \in rows }

\* ORDER BY timestamp DESC: every arrangement of rows with timestamps
\* non-increasing (rows of equal timestamp come in any order).
RECURSIVE OrderByTimestampDesc(_)
OrderByTimestampDesc(rows) ==
    IF rows = {} THEN {<<>>}
    ELSE UNION { { <<r>> \o rest : rest \in OrderByTimestampDesc(rows \ {r}) } :
                 r \in {x \in rows : \A y \in rows : y.timestamp <= x.timestamp} }

\* Mutant of OffsetLimit: the offset counts pages, not rows.
OffsetPages(sq, offset, limit) ==
    SubSeq(sq, offset * limit + 1,
           IF (offset + 1) * limit < Len(sq) THEN (offset + 1) * limit
           ELSE Len(sq))

\* OFFSET offset LIMIT limit.
OffsetLimit(sq, offset, limit) ==
    SubSeq(sq, offset + 1,
           IF offset + limit < Len(sq) THEN offset + limit ELSE Len(sq))

\* The row sequences the SELECT of query can produce in session s.
SelectRows(s, f) ==
    { OffsetLimit(sq, f.offset, f.limit) :
        sq \in OrderByTimestampDesc({r \in Visible(s) : Matches(r, f)}) }

\* The AuditEntry query builds from a row.
ToEntry(r) ==
    [actor_id |-> StrUUID(r.actor_id),
     actor_type |-> r.actor_type,
     actor_ip |-> r.actor_ip,
     action |-> r.action,
     action_detail |-> r.action_detail,
     resource_type |-> r.resource_type,
     resource_id |-> r.resource_id,
     tenant_id |-> StrUUID(r.tenant_id),
     request_id |-> StrUUID(r.request_id),
     session_id |-> IF r.session_id # NULL THEN StrUUID(r.session_id)
                    ELSE None,
     timestamp |-> r.timestamp,
     old_values |-> r.old_values,
     new_values |-> r.new_values,
     success |-> r.success,
     error_message |-> r.error_message,
     data_classification |-> r.data_classification]

\* The lists of AuditEntry query(**f) can return in session s.
QueryResults(s, f) ==
    { [i \in DOMAIN rs |-> ToEntry(rs[i])] : rs \in SelectRows(s, f) }

\* Arguments the model calls query with.
Filters ==
    { [NoFilter(t) EXCEPT !.actor_id = a, !.action = act,
                          !.limit = pg[1], !.offset = pg[2]] :
        t \in {"a1", "A1", "b2", "default"}, a \in {None, "a1"},
        act \in {None, "login"},
        pg \in {<<DefaultLimit, 0>>, <<1, 0>>, <<1, 1>>} }

\* How a query call ends: with a list, or with the ValueError of UUID(...).
QueryOutcome(f) == IF QueryAccepts(f) THEN "ok" ELSE "ValueError"

\* query reads and writes nothing: the lists it can return are
\* QueryResults(s, f) of the state it is called in.
Query(s) ==
    /\ Idle(s)
    /\ \E out \in {QueryOutcome(f) : f \in Filters} :
          last' = [op |-> "query", sess |-> s, out |-> out,
                   id |-> NULL]
    /\ UNCHANGED <<committed, pending, inflight, sstate, nlogs>>
    /\ UNCHANGED ctxVars
    /\ UNCHANGED <<txVars, extVars>>

\* query called with a tenant_id and no other filter.
TenantFilters ==
    {NoFilter(x) : x \in {"a1", "b2"}}

QueryTenant(s) ==
    /\ Idle(s)
    /\ \E out \in {QueryOutcome(f) : f \in TenantFilters} :
          last' = [op |-> "query", sess |-> s, out |-> out,
                   id |-> NULL]
    /\ UNCHANGED <<committed, pending, inflight, sstate, nlogs>>
    /\ UNCHANGED ctxVars
    /\ UNCHANGED <<txVars, extVars>>

\* The rows a query is run on: the AuditLog rows of five logged entries,
\* three of tenant a1 at times 1, 3 and 5 (T-2h, T-1h and T in hours; T-90m
\* is 2), a fourth of a1 at time 3 too, and one of tenant b2.
StoreEntries ==
    << BaseEntry,
       [BaseEntry EXCEPT !.timestamp = 3, !.action = "update"],
       [BaseEntry EXCEPT !.timestamp = 5],
       [BaseEntry EXCEPT !.timestamp = 3, !.resource_id = "r2",
                         !.actor_id = "b2"],
       [BaseEntry EXCEPT !.tenant_id = "b2", !.timestamp = 5] >>

StoreRows ==
    { [BuildAuditLog(StoreEntries[i], 8) EXCEPT !.id = 10 + i] :
        i \in DOMAIN StoreEntries }

\* Arguments query is called with: the exact-match filters in every
\* combination, the time bounds, and the pages.
QFilters ==
    { [NoFilter(t) EXCEPT !.actor_id = a, !.resource_type = rt,
                          !.resource_id = ri, !.action = act] :
        t \in {"a1", "b2"}, a \in {None, "", "a1"},
        rt \in {None, "", "user"}, ri \in {None, "", "r2"},
        act \in {None, "login"} }
    \cup
    { [NoFilter("a1") EXCEPT !.actor_id = "zz"] }
    \cup
    { [NoFilter(t) EXCEPT !.start_time = st, !.end_time = en] :
        t \in {"a1", "b2"}, st \in {NoTime, 2, 3}, en \in {NoTime, 3, 5} }
    \cup
    { [NoFilter(t) EXCEPT !.limit = l, !.offset = o] :
        t \in {"a1", "b2"}, l \in {DefaultLimit, 1, 2}, o \in {0, 1, 2} }

\* A call of query with its result kept: the rows the SELECT produced and
\* the list of AuditEntry built from them, or the ValueError of UUID(...).
QueryCall(s) ==
    /\ Idle(s)
    /\ \E f \in QFilters :
          IF QueryAccepts(f)
          THEN \E rs \in SelectRows(s, f) :
                 qret' = [f |-> f, out |-> "ok", rows |-> rs,
                          result |-> [i \in DOMAIN rs |-> ToEntry(rs[i])]]
          ELSE qret' = [f |-> f, out |-> "ValueError", rows |-> <<>>,
                        result |-> <<>>]
    /\ UNCHANGED <<stream, fret>>
    /\ UNCHANGED admVars
    /\ UNCHANGED auditVars
    /\ UNCHANGED ctxVars
    /\ UNCHANGED txVars

-----------------------------------------------------------------------------
(* LoggingAuditLogger: audit entries go to the module's logger only.       *)

\* logger.info("AUDIT", extra={...}) of log.
AuditRecord(log_id, e) ==
    [level |-> "INFO", msg |-> "AUDIT",
     extra |-> {[audit_id |-> log_id,
                 actor_id |-> e.actor_id,
                 actor_type |-> e.actor_type,
                 action |-> e.action,
                 resource_type |-> e.resource_type,
                 resource_id |-> e.resource_id,
                 tenant_id |-> e.tenant_id,
                 request_id |-> e.request_id,
                 success |-> e.success,
                 data_classification |-> e.data_classification]}]

\* logger.warning(...) of query.
QueryWarning ==
    [level |-> "WARNING",
     msg |-> "Audit query not supported for LoggingAuditLogger",
     extra |-> {}]

\* LoggingAuditLogger.log: no conversion, no store; the entry is emitted
\* as a log record and a fresh uuid4 returned.
FallbackLog ==
    /\ Len(stream) < MaxStream
    /\ \E e \in Entries, u \in Uuid4Values :
          LET rec == AuditRecord(StrUUID(u), e)
          IN  /\ stream' = Append(stream, rec)
              /\ fret' = [op |-> "log", tenant_id |-> e.tenant_id,
                          kwargs |-> {}, out |-> "ok", result |-> <<>>,
                          id |-> StrUUID(u), emitted |-> <<rec>>]
    /\ UNCHANGED qret
    /\ UNCHANGED admVars
    /\ UNCHANGED auditVars
    /\ UNCHANGED ctxVars
    /\ UNCHANGED txVars

\* The keyword arguments query is called with besides tenant_id.
FallbackKwargs ==
    { {}, {<<"action", "login">>}, {<<"actor_id", "a1">>},
      {<<"resource_id", "">>} }

\* LoggingAuditLogger.query: a warning is emitted and [] returned,
\* whatever the arguments.
FallbackQuery ==
    /\ Len(stream) < MaxStream
    /\ \E t \in {"a1", "b2", "default"}, kw \in FallbackKwargs :
          /\ stream' = Append(stream, QueryWarning)
          /\ fret' = [op |-> "query", tenant_id |-> t, kwargs |-> kw,
                      out |-> "ok", result |-> <<>>, id |-> None,
                      emitted |-> <<QueryWarning>>]
    /\ UNCHANGED qret
    /\ UNCHANGED admVars
    /\ UNCHANGED auditVars
    /\ UNCHANGED ctxVars
    /\ UNCHANGED txVars

-----------------------------------------------------------------------------
(* Request context: app/core/context.py, RequestContextMiddleware,         *)
(* get_current_user_optional, AuditEntry.from_context                      *)

Requests == {"rA", "rB"}

\* Every request runs RequestContextMiddleware.dispatch in a task of its
\* own and, from call_next on, the route handler with its dependencies in
\* a child task; "job" is code running outside any request.
Tasks == {<<r, k>> : r \in Requests, k \in {"dispatch", "handler"}}
            \cup {<<"job", "main">>}

\* A RequestContext nobody has constructed yet.
Unallocated ==
    [request_id |-> None, tenant_id |-> None, user_id |-> None,
     user_email |-> None, user_roles |-> <<>>, session_id |-> None,
     client_ip |-> None, user_agent |-> None]

\* Inbound request metadata: the headers dispatch reads (None: header not
\* sent) and the transport-level client address (None: request.client is
\* None).  The value of X-Forwarded-For is a string, written here as the
\* sequence of its pieces: addresses, "," and " ".
Inbound ==
    { [x_request_id |-> None, x_tenant_id |-> None, client |-> "10.0.0.1",
       x_forwarded_for |-> None, user_agent |-> "curl"],
      [x_request_id |-> "c3", x_tenant_id |-> "a1", client |-> "10.0.0.1",
       x_forwarded_for |-> <<" ", "10.9.9.9", " ", ",", " ", "10.0.0.2">>,
       user_agent |-> None] }

\* More of them: a request whose X-Forwarded-For is the empty string and
\* that has no transport-level client address, sent with X-Tenant-ID b2.
InboundAll ==
    Inbound \cup
    { [x_request_id |-> "c3", x_tenant_id |-> "b2", client |-> None,
       x_forwarded_for |-> <<>>, user_agent |-> "curl"] }

\* No request has arrived yet.
NoInbound ==
    [x_request_id |-> None, x_tenant_id |-> None, client |-> None,
     x_forwarded_for |-> None, user_agent |-> None]

\* h.split(",")[0]: the pieces before the first ",".
RECURSIVE SplitFirst(_)
SplitFirst(h) ==
    IF h = <<>> \/ Head(h) = "," THEN <<>>
    ELSE <<Head(h)>> \o SplitFirst(Tail(h))

\* s.strip(): leading and trailing blanks removed.
RECURSIVE Strip(_)
Strip(s) ==
    IF s = <<>> THEN <<>>
    ELSE IF Head(s) = " " THEN Strip(Tail(s))
    ELSE IF s[Len(s)] = " " THEN Strip(SubSeq(s, 1, Len(s) - 1))
    ELSE s

\* The string a sequence of pieces spells, for at most one address.
Spell(s) == IF s = <<>> THEN "" ELSE s[1]

\* Mutant of ClientIp: the transport-level address wins over the header.
ClientIpTransportFirst(m) ==
    IF m.client # None THEN m.client
    ELSE IF m.x_forwarded_for # None /\ m.x_forwarded_for # <<>>
         THEN Spell(Strip(SplitFirst(m.x_forwarded_for)))
         ELSE None

\* client_ip as dispatch computes it: request.client.host if there is a
\* client, replaced by the first entry of X-Forwarded-For if the header
\* is there and not empty.
ClientIp(m) ==
    LET transport == IF m.client # None THEN m.client ELSE None
    IN  IF m.x_forwarded_for # None /\ m.x_forwarded_for # <<>>
        THEN Spell(Strip(SplitFirst(m.x_forwarded_for)))
        ELSE transport

\* The RequestContext dispatch constructs; u is the uuid4() drawn for a
\* request without X-Request-ID.
NewContext(m, u) ==
    [request_id |-> IF m.x_request_id # None THEN m.x_request_id
                    ELSE StrUUID(u),
     tenant_id |-> IF m.x_tenant_id # None THEN m.x_tenant_id ELSE "default",
     user_id |-> None,
     user_email |-> None,
     user_roles |-> <<>>,
     session_id |-> None,
     client_ip |-> ClientIp(m),
     user_agent |-> m.user_agent]

\* Mutant of SetRequestContext: a module-level global instead of a
\* ContextVar, so that the value is set for every task.
SetRequestContextGlobal(t, c) == [x \in Tasks |-> c]

\* set_request_context(ctx) run by task t: _request_context.set binds the
\* variable in the context of the running task only.
SetRequestContext(t, c) == [cv EXCEPT ![t] = c]

\* dispatch up to `await call_next(request)`, for a request that is one
\* of arrivals.
Establish(r, arrivals) ==
    /\ pc[r] = "idle"
    /\ \E m \in arrivals, u \in Uuid4Values :
          /\ heap' = [heap EXCEPT ![r] = NewContext(m, u)]
          /\ inb' = [inb EXCEPT ![r] = m]
    /\ cv' = SetRequestContext(<<r, "dispatch">>, r)
    /\ pc' = [pc EXCEPT ![r] = "established"]
    /\ UNCHANGED <<nres, ret>>
    /\ UNCHANGED auditVars
    /\ UNCHANGED <<txVars, extVars>>

Dispatch(r) == Establish(r, Inbound)

DispatchAny(r) == Establish(r, InboundAll)

\* Mutant of CallNext: the handler's task begins with an empty context
\* instead of a copy of its parent's.
CallNextFresh(r) ==
    /\ pc[r] = "established"
    /\ cv' = [cv EXCEPT ![<<r, "handler">>] = None]
    /\ pc' = [pc EXCEPT ![r] = "handling"]
    /\ UNCHANGED <<heap, nres, ret>>
    /\ UNCHANGED auditVars
    /\ UNCHANGED inb
    /\ UNCHANGED <<txVars, extVars>>

\* call_next starts the handler in a child task, which begins with a copy
\* of the context of the task that spawned it.
CallNext(r) ==
    /\ pc[r] = "established"
    /\ cv' = [cv EXCEPT ![<<r, "handler">>] = cv[<<r, "dispatch">>]]
    /\ pc' = [pc EXCEPT ![r] = "handling"]
    /\ UNCHANGED <<heap, nres, ret>>
    /\ UNCHANGED auditVars
    /\ UNCHANGED inb
    /\ UNCHANGED <<txVars, extVars>>

\* The handler returns or raises; dispatch then returns the response (or
\* the exception passes through it).  Nothing resets _request_context.
Complete(r) ==
    /\ pc[r] = "handling"
    /\ pc' = [pc EXCEPT ![r] = "done"]
    /\ UNCHANGED <<cv, heap, nres, ret>>
    /\ UNCHANGED auditVars
    /\ UNCHANGED inb
    /\ UNCHANGED <<txVars, extVars>>

\* The tasks whose code can be running.
Running(t) ==
    \/ t = <<"job", "main">>
    \/ t[2] = "dispatch" /\ t[1] \in Requests /\ pc[t[1]] \in {"idle", "established"}
    \/ t[2] = "handler" /\ t[1] \in Requests /\ pc[t[1]] = "handling"

-----------------------------------------------------------------------------
(* The getters of app/core/context.py.  A call ends with out = "ok" and a  *)
(* value, or with out = "RuntimeError".                                    *)

\* Mutant of GetRequestContext: a default context instead of the error.
GetRequestContextDefault(t) ==
    IF cv[t] = None THEN [out |-> "ok", val |-> "rA"]
    ELSE [out |-> "ok", val |-> cv[t]]

GetRequestContext(t) ==
    IF cv[t] = None THEN [out |-> "RuntimeError", val |-> None]
    ELSE [out |-> "ok", val |-> cv[t]]

GetOptionalRequestContext(t) == [out |-> "ok", val |-> cv[t]]

GetTenantId(t) ==
    LET c == GetRequestContext(t)
    IN  IF c.out # "ok" THEN c
        ELSE [out |-> "ok", val |-> heap[c.val].tenant_id]

GetUserId(t) ==
    LET c == GetOptionalRequestContext(t)
    IN  IF c.val # None THEN [out |-> "ok", val |-> heap[c.val].user_id]
        ELSE [out |-> "ok", val |-> None]

GetRequestId(t) ==
    LET c == GetRequestContext(t)
    IN  IF c.out # "ok" THEN c
        ELSE [out |-> "ok", val |-> heap[c.val].request_id]

Getters ==
    {"get_request_context", "get_optional_request_context", "get_tenant_id",
     "get_user_id", "get_request_id"}

CallGetter(fn, t) ==
    CASE fn = "get_request_context" -> GetRequestContext(t)
      [] fn = "get_optional_request_context" -> GetOptionalRequestContext(t)
      [] fn = "get_tenant_id" -> GetTenantId(t)
      [] fn = "get_user_id" -> GetUserId(t)
      [] fn = "get_request_id" -> GetRequestId(t)

\* ret.absent tells whether the calling task had no Context when it called.
Get(t) ==
    /\ Running(t)
    /\ \E fn \in Getters :
          ret' = [fn |-> fn, task |-> t, absent |-> (cv[t] = None),
                  explicit |-> {}, out |-> CallGetter(fn, t).out,
                  val |-> CallGetter(fn, t).val, entry |-> {}]
    /\ UNCHANGED <<cv, heap, pc, nres>>
    /\ UNCHANGED auditVars
    /\ UNCHANGED inb
    /\ UNCHANGED <<txVars, extVars>>

-----------------------------------------------------------------------------
(* get_current_user_optional                                               *)

\* The users table: ids and tenant_ids are UUIDs.
Users ==
    { [id |-> 1, email |-> "amy@alpha", roles |-> <<"admin">>,
       tenant_id |-> 1, is_active |-> TRUE],
      [id |-> 2, email |-> "bob@beta", roles |-> <<"user">>,
       tenant_id |-> 2, is_active |-> TRUE],
      [id |-> 3, email |-> "cat@alpha", roles |-> <<"user">>,
       tenant_id |-> 1, is_active |-> FALSE] }

\* The bearer credentials of a request: None (no Authorization header), or
\* a token, written <type>:<sub>; "garbage" does not decode.
Credentials ==
    {None, "garbage", "refresh:a1", "access:a1", "access:b2", "access:c3",
     "access:nobody"}

\* verify_access_token: the payload's sub, for a token that decodes and
\* has type "access"; jwt.InvalidTokenError (None here) otherwise.
VerifyAccessToken(tok) ==
    CASE tok = "access:a1" -> "a1"
      [] tok = "access:b2" -> "b2"
      [] tok = "access:c3" -> "c3"
      [] tok = "access:nobody" -> "nobody"
      [] OTHER -> None

\* The user get_current_user_optional finds for the credentials, as a set
\* with at most one element.
ResolveUser(cred) ==
    IF cred = None \/ VerifyAccessToken(cred) = None THEN {}
    ELSE { u \in Users :
             /\ ParseUUID(VerifyAccessToken(cred)) # Invalid
             /\ u.id = ParseUUID(VerifyAccessToken(cred))
             /\ u.is_active }

\* Mutant of WithIdentity: the tenant_id the middleware took from the
\* header is kept.
WithIdentityKeepTenant(c, u) ==
    [c EXCEPT !.user_id = StrUUID(u.id),
              !.user_email = u.email,
              !.user_roles = u.roles]

\* The four assignments to the fields of the ambient Context.
WithIdentity(c, u) ==
    [c EXCEPT !.user_id = StrUUID(u.id),
              !.user_email = u.email,
              !.user_roles = u.roles,
              !.tenant_id = StrUUID(u.tenant_id)]

\* Mutant of ResolveIdentity: a resolution that finds no user resets the
\* identity of the Context to the anonymous one.
ResolveIdentityResetting(r) ==
    /\ pc[r] = "handling"
    /\ nres < MaxResolve
    /\ nres' = nres + 1
    /\ \E cred \in Credentials :
          /\ ResolveUser(cred) = {}
          /\ heap' = [heap EXCEPT ![r].user_id = None,
                                  ![r].user_email = None,
                                  ![r].user_roles = <<>>,
                                  ![r].tenant_id = "default"]
          /\ ret' = [fn |-> "get_current_user_optional",
                     task |-> <<r, "handler">>, absent |-> FALSE,
                     explicit |-> {}, out |-> "ok", val |-> None,
                     entry |-> {}]
    /\ UNCHANGED <<cv, pc>>
    /\ UNCHANGED auditVars
    /\ UNCHANGED inb
    /\ UNCHANGED <<txVars, extVars>>

\* get_current_user_optional run as a dependency of request r's handler.
ResolveIdentity(r) ==
    /\ pc[r] = "handling"
    /\ nres < MaxResolve
    /\ nres' = nres + 1
    /\ \E cred \in Credentials :
          LET found == ResolveUser(cred)
              t == <<r, "handler">>
          IN  IF found = {}
              THEN /\ ret' = [fn |-> "get_current_user_optional", task |-> t,
                              absent |-> (cv[t] = None), explicit |-> {},
                              out |-> "ok", val |-> None, entry |-> {}]
                   /\ UNCHANGED <<cv, heap>>
              ELSE \E u \in found :
                     IF GetRequestContext(t).out # "ok"
                     THEN /\ ret' = [fn |-> "get_current_user_optional",
                                     task |-> t, absent |-> TRUE,
                                     explicit |-> {}, out |-> "RuntimeError",
                                     val |-> None, entry |-> {}]
                          /\ UNCHANGED <<cv, heap>>
                     ELSE LET c == GetRequestContext(t).val
                          IN  /\ heap' = [heap EXCEPT
                                            ![c] = WithIdentity(heap[c], u)]
                              /\ cv' = SetRequestContext(t, c)
                              /\ ret' = [fn |-> "get_current_user_optional",
                                         task |-> t, absent |-> FALSE,
                                         explicit |-> {}, out |-> "ok",
                                         val |-> StrUUID(u.id), entry |-> {}]
    /\ UNCHANGED pc
    /\ UNCHANGED auditVars
    /\ UNCHANGED inb
    /\ UNCHANGED <<txVars, extVars>>

-----------------------------------------------------------------------------
(* AuditEntry.from_context.  Keyword arguments are sets of <<name, value>> *)
(* pairs.                                                                  *)

Names(kw) == {p[1] : p \in kw}

Arg(kw, name) == (CHOOSE p \in kw : p[1] = name)[2]

ArgOr(kw, name, default) ==
    IF name \in Names(kw) THEN Arg(kw, name) ELSE default

\* datetime.now(timezone.utc), the default of AuditEntry.timestamp.
Now == 1

\* The AuditEntry fields without a default.
RequiredFields ==
    {"actor_id", "action", "resource_type", "resource_id", "tenant_id"}

\* Mutant of Construct: a missing tenant_id defaults to "default".
ConstructDefaultTenant(kw, u) ==
    IF {"actor_id", "action", "resource_type", "resource_id"} \subseteq Names(kw)
    THEN [out |-> "ok",
          entry |-> {[BaseEntry EXCEPT
                        !.actor_id = Arg(kw, "actor_id"),
                        !.action = Arg(kw, "action"),
                        !.resource_type = Arg(kw, "resource_type"),
                        !.resource_id = Arg(kw, "resource_id"),
                        !.tenant_id = ArgOr(kw, "tenant_id", "default"),
                        !.timestamp = Now]}]
    ELSE [out |-> "ValidationError", entry |-> {}]

\* cls(**kw): pydantic validates the fields and fills in the defaults; u is
\* the uuid4() of the request_id default.
Construct(kw, u) ==
    IF /\ RequiredFields \subseteq Names(kw)
       /\ \A p \in kw : p[1] \in RequiredFields => p[2] # None
       /\ Arg(kw, "action") \in AuditActions
    THEN [out |-> "ok",
          entry |-> {[actor_id |-> Arg(kw, "actor_id"),
                      actor_type |-> ArgOr(kw, "actor_type", "user"),
                      actor_ip |-> ArgOr(kw, "actor_ip", None),
                      action |-> Arg(kw, "action"),
                      action_detail |-> ArgOr(kw, "action_detail", None),
                      resource_type |-> Arg(kw, "resource_type"),
                      resource_id |-> Arg(kw, "resource_id"),
                      tenant_id |-> Arg(kw, "tenant_id"),
                      request_id |-> ArgOr(kw, "request_id", StrUUID(u)),
                      session_id |-> ArgOr(kw, "session_id", None),
                      timestamp |-> Now,
                      old_values |-> None,
                      new_values |-> None,
                      success |-> TRUE,
                      error_message |-> ArgOr(kw, "error_message", None),
                      data_classification |->
                          ArgOr(kw, "data_classification", "internal")]}]
    ELSE [out |-> "ValidationError", entry |-> {}]

\* Mutant of FromAmbient: the actor is "anonymous" whether or not the
\* Context has a resolved user.
FromAmbientAnonymous(c) ==
    { <<"actor_id", "anonymous">>,
      <<"actor_ip", heap[c].client_ip>>,
      <<"tenant_id", heap[c].tenant_id>>,
      <<"request_id", heap[c].request_id>>,
      <<"session_id", heap[c].session_id>> }

\* The keyword arguments from_context takes from the ambient Context c.
FromAmbient(c) ==
    { <<"actor_id", IF Truthy(heap[c].user_id) THEN heap[c].user_id
                    ELSE "anonymous">>,
      <<"actor_ip", heap[c].client_ip>>,
      <<"tenant_id", heap[c].tenant_id>>,
      <<"request_id", heap[c].request_id>>,
      <<"session_id", heap[c].session_id>> }

\* Mutant of FromContextCall: the entry is attributed to the tenant that
\* owns the users-table row named as the resource, not to the tenant of
\* the Context.
FromContextCallResourceTenant(t, action, rtype, rid, kw, u) ==
    LET c == GetOptionalRequestContext(t).val
        args == {<<"action", action>>, <<"resource_type", rtype>>,
                 <<"resource_id", rid>>}
        owner == {StrUUID(usr.tenant_id) :
                    usr \in {x \in Users : StrUUID(x.id) = rid}}
    IN  IF c # None
        THEN Construct({p \in FromAmbient(c) : p[1] # "tenant_id"}
                          \cup {<<"tenant_id", o>> : o \in owner}
                          \cup args \cup kw, u)
        ELSE Construct(args \cup kw, u)

\* from_context(action, resource_type, resource_id, **kw) run by task t.
\* A keyword given twice in a call is a TypeError.
FromContextCall(t, action, rtype, rid, kw, u) ==
    LET c == GetOptionalRequestContext(t).val
        args == {<<"action", action>>, <<"resource_type", rtype>>,
                 <<"resource_id", rid>>}
    IN  IF c # None
        THEN IF Names(FromAmbient(c)) \cap Names(kw) # {}
             THEN [out |-> "TypeError", entry |-> {}]
             ELSE Construct(FromAmbient(c) \cup args \cup kw, u)
        ELSE Construct(args \cup kw, u)

\* The **kwargs the model calls from_context with.
ExtraFields ==
    { {},
      {<<"action_detail", "export of users">>},
      {<<"actor_id", "a1">>},
      {<<"tenant_id", "b2">>},
      {<<"tenant_id", "b2">>, <<"actor_id", "a1">>} }

FromContext(t) ==
    /\ Running(t)
    /\ \E kw \in ExtraFields, u \in Uuid4Values :
          LET res == FromContextCall(t, "read", "user", "r1", kw, u)
          IN  ret' = [fn |-> "from_context", task |-> t,
                      absent |-> (cv[t] = None), explicit |-> kw,
                      out |-> res.out,
                      val |-> None, entry |-> res.entry]
    /\ UNCHANGED <<cv, heap, pc, nres>>
    /\ UNCHANGED auditVars
    /\ UNCHANGED inb
    /\ UNCHANGED <<txVars, extVars>>

-----------------------------------------------------------------------------
(* A handler that builds its audit entry with from_context and hands it    *)
(* to DatabaseAuditLogger.log.                                             *)

\* The ids of the users-table rows a handler names as its resource.
ResourceIds == {StrUUID(usr.id) : usr \in {x \in Users : x.is_active}}

MaxHandlerLogs == 1 \* entries the handler of one request logs

\* The extra fields the handler passes: none, or a detail of the action.
HandlerFields == {kw \in ExtraFields : \A p \in kw : p[1] = "action_detail"}

\* from_context(...) followed by log(entry) up to the flush, in task t
\* with session s.  An exception of from_context leaves the handler before
\* log is called.
LogFromContext(t, s) ==
    /\ Running(t)
    /\ Idle(s)
    /\ nlogs < MaxHandlerLogs
    /\ \E rid \in ResourceIds, kw \in HandlerFields, u \in Uuid4Values,
          anon \in Uuid4Values :
          LET res == FromContextCall(t, "update", "user", rid, kw, u)
          IN  /\ ret' = [fn |-> "from_context", task |-> t,
                         absent |-> (cv[t] = None), explicit |-> kw,
                         out |-> res.out, val |-> None,
                         entry |-> res.entry]
              /\ IF res.out # "ok"
                 THEN UNCHANGED <<nlogs, inflight, last>>
                 ELSE \E e \in res.entry :
                        /\ nlogs' = nlogs + 1
                        /\ IF LogAccepts(e)
                           THEN /\ inflight' = [inflight EXCEPT
                                       ![s] = {BuildAuditLog(e, anon)}]
                                /\ UNCHANGED last
                           ELSE /\ last' = [op |-> "log", sess |-> s,
                                            out |-> "ValueError",
                                            id |-> NULL]
                                /\ UNCHANGED inflight
    /\ UNCHANGED <<committed, pending, sstate>>
    /\ UNCHANGED <<cv, heap, pc, nres, inb>>
    /\ UNCHANGED <<txVars, extVars>>

-----------------------------------------------------------------------------
(* Handlers that write to the users table through their session            *)
(* (app/api/users.py, app/api/auth.py).                                    *)

\* The ids create_user's new rows can get.
NewUserIds == {7}

\* create_user up to db.add(user): the new row is in the session, not yet
\* committed.
AddUser(s) ==
    /\ Idle(s)
    /\ \E i \in NewUserIds :
          /\ \A x \in Sessions : \A w \in dirty[x] \cup durable : w.id # i
          /\ dirty' = [dirty EXCEPT
                         ![s] = @ \cup {[table |-> "users", id |-> i,
                                         col |-> "row"]}]
    /\ UNCHANGED <<durable, extVars>>
    /\ UNCHANGED auditVars
    /\ UNCHANGED ctxVars

\* hash_password / verify_password of app/core/security.py.
HashPassword(p) == <<"bcrypt", p>>

VerifyPassword(plain, hashed) == HashPassword(plain) = hashed

\* users.hashed_password.
HashedPassword(u) ==
    CASE u.id = 1 -> HashPassword("pw-amy")
      [] u.id = 2 -> HashPassword("pw-bob")
      [] OTHER -> HashPassword("pw-cat")

\* The bodies of POST /login.
LoginRequests ==
    { [email |-> "amy@alpha", password |-> "pw-amy"],
      [email |-> "amy@alpha", password |-> "pw-bob"],
      [email |-> "cat@alpha", password |-> "pw-cat"],
      [email |-> "dan@alpha", password |-> "pw-amy"] }

\* What login answers to a request: 401, 403 or 200.
LoginOutcome(req) ==
    LET found == {u \in Users : u.email = req.email}
    IN  IF \A u \in found : ~VerifyPassword(req.password, HashedPassword(u))
        THEN [out |-> "401", id |-> NULL]
        ELSE LET user == CHOOSE u \in found : TRUE
             IN  IF ~user.is_active THEN [out |-> "403", id |-> NULL]
                 ELSE [out |-> "ok", id |-> user.id]

\* The login endpoint: the user is looked up and the password verified; a
\* failure raises HTTPException; otherwise last_login_at is set, the
\* session committed and the tokens returned.
Login(s) ==
    /\ Idle(s)
    /\ \E req \in LoginRequests :
          LET o == LoginOutcome(req)
          IN  /\ last' = [op |-> "login", sess |-> s, out |-> o.out,
                          id |-> o.id]
              /\ IF o.out = "ok"
                 THEN /\ committed' = committed \cup pending[s]
                      /\ pending' = [pending EXCEPT ![s] = {}]
                      /\ durable' = durable \cup dirty[s] \cup
                                      {[table |-> "users", id |-> o.id,
                                        col |-> "last_login_at"]}
                      /\ dirty' = [dirty EXCEPT ![s] = {}]
                 ELSE UNCHANGED <<committed, pending, dirty, durable>>
    /\ UNCHANGED <<inflight, sstate, nlogs>>
    /\ UNCHANGED ctxVars
    /\ UNCHANGED extVars

-----------------------------------------------------------------------------
(* User administration (app/api/users.py), on the committed rows of the    *)
(* users table.  Every handler ends with its commit.                       *)

MaxCreated == 1     \* users create_user adds beyond the initial rows

\* A row of the users table with the columns the handlers read or write.
UserRow(u) ==
    [id |-> u.id, email |-> u.email, tenant_id |-> u.tenant_id,
     roles |-> u.roles, is_active |-> u.is_active, full_name |-> None,
     hashed_password |-> HashedPassword(u)]

\* The users table at the start: the rows of Users and an admin of the
\* second tenant.
InitialTable ==
    {UserRow(u) : u \in Users} \cup
    {UserRow([id |-> 4, email |-> "eve@beta", roles |-> <<"admin">>,
              tenant_id |-> 2, is_active |-> TRUE])}

\* The ids a path parameter user_id, or the sub of a token, can name.
UserIds == 1..(4 + MaxCreated)

\* Who calls: nobody (no token), or the bearer of a valid access token of
\* an admin of either tenant or of a user without the role.
Callers == {NULL, 1, 2, 4}

\* The skip and limit of GET /users.
Pages == {<<0, 100>>, <<1, 1>>}

\* User.is_admin().
IsAdmin(u) == \E i \in DOMAIN u.roles : u.roles[i] = "admin"

\* get_current_user_optional for a valid access token of user cid (NULL:
\* no token): the active row with that id.
CurrentUser(cid) == {u \in utable : u.id = cid /\ u.is_active}

\* The AdminUser dependency: 401 without a user, 403 without the role.
AdminGate(cid) ==
    IF CurrentUser(cid) = {} THEN "401"
    ELSE IF \A u \in CurrentUser(cid) : ~IsAdmin(u) THEN "403"
    ELSE "ok"

\* Mutant of ScopedLookup: the row is looked up by its id alone.
UnscopedLookup(tbl, user_id, admin) == {u \in tbl : u.id = user_id}

\* select(User).where(User.id == user_id,
\*                    User.tenant_id == admin.tenant_id).
ScopedLookup(tbl, user_id, admin) ==
    {u \in tbl : u.id = user_id /\ u.tenant_id = admin.tenant_id}

\* The answer of a call the AdminUser dependency rejected.
Rejected(op, cid, target) ==
    [op |-> op, caller |-> cid, tenant |-> NULL, target |-> target,
     out |-> AdminGate(cid), rows |-> {}]

\* The answer of a call made by admin.
Answer(op, admin, target, out, rows) ==
    [op |-> op, caller |-> admin.id, tenant |-> admin.tenant_id,
     target |-> target, out |-> out, rows |-> rows]

\* What the administration handlers leave alone.
AdminFrame ==
    /\ UNCHANGED auditVars
    /\ UNCHANGED ctxVars
    /\ UNCHANGED txVars
    /\ UNCHANGED <<stream, fret, qret>>

\* GET /users: the rows of the admin's tenant, in the order the database
\* yields them (no ORDER BY), after skip, at most limit of them.
ListUsers ==
    /\ \E cid \in Callers, pg \in Pages :
          IF AdminGate(cid) # "ok"
          THEN uret' = Rejected("list_users", cid, NULL)
          ELSE \E admin \in CurrentUser(cid) :
                 LET scoped == {u \in utable :
                                  u.tenant_id = admin.tenant_id}
                     n == Cardinality(scoped)
                     rest == IF n > pg[1] THEN n - pg[1] ELSE 0
                     k == IF rest < pg[2] THEN rest ELSE pg[2]
                 IN  \E page \in {S \in SUBSET scoped :
                                     Cardinality(S) = k} :
                        uret' = Answer("list_users", admin, NULL, "200",
                                       page)
    /\ UNCHANGED utable
    /\ AdminFrame

\* GET /users/{user_id}.
GetUser ==
    /\ \E cid \in Callers, user_id \in UserIds :
          IF AdminGate(cid) # "ok"
          THEN uret' = Rejected("get_user", cid, user_id)
          ELSE \E admin \in CurrentUser(cid) :
                 LET found == ScopedLookup(utable, user_id, admin)
                 IN  uret' = Answer("get_user", admin, user_id,
                                    IF found = {} THEN "404" ELSE "200",
                                    found)
    /\ UNCHANGED utable
    /\ AdminFrame

\* The bodies of POST /users.
UserCreates ==
    { [email |-> "bob@beta", password |-> "pw-new-01",
       full_name |-> None] }

\* POST /users: 409 when the email is taken in the admin's tenant;
\* otherwise a row of the admin's tenant with roles ["user"] is added.
CreateUser ==
    \E cid \in Callers, user_data \in UserCreates :
       /\ AdminFrame
       /\ IF AdminGate(cid) # "ok"
          THEN /\ uret' = Rejected("create_user", cid, NULL)
               /\ UNCHANGED utable
          ELSE \E admin \in CurrentUser(cid) :
                 IF \E u \in utable : /\ u.email = user_data.email
                                       /\ u.tenant_id = admin.tenant_id
                 THEN /\ uret' = Answer("create_user", admin, NULL, "409",
                                        {})
                      /\ UNCHANGED utable
                 ELSE \E i \in UserIds \ {u.id : u \in utable} :
                        LET user == [id |-> i, email |-> user_data.email,
                                     tenant_id |-> admin.tenant_id,
                                     roles |-> <<"user">>,
                                     is_active |-> TRUE,
                                     full_name |-> user_data.full_name,
                                     hashed_password |->
                                        HashPassword(user_data.password)]
                        IN  /\ i > 4
                            /\ utable' = utable \cup {user}
                            /\ uret' = Answer("create_user", admin, i,
                                              "201", {user})

\* The bodies of PATCH /users/{user_id}; an Optional[bool] is the empty
\* set (None) or the set of its value.
UserUpdates ==
    { [email |-> "bob@beta", full_name |-> "Zed",
       password |-> "pw-new-02", is_active |-> {}],
      [email |-> None, full_name |-> None, password |-> None,
       is_active |-> {TRUE}] }

\* The row user after update_data is applied to it.
Updated(user, update_data) ==
    [user EXCEPT
       !.email = IF update_data.email # None THEN update_data.email ELSE @,
       !.full_name = IF update_data.full_name # None
                     THEN update_data.full_name ELSE @,
       !.hashed_password = IF update_data.password # None
                           THEN HashPassword(update_data.password) ELSE @,
       !.is_active = IF update_data.is_active # {}
                     THEN (CHOOSE b \in update_data.is_active : TRUE)
                     ELSE @]

\* PATCH /users/{user_id}: 404 when the admin's tenant has no such row,
\* 409 when another row of the tenant has the new email.
UpdateUser ==
    \E cid \in Callers, user_id \in UserIds,
       update_data \in UserUpdates :
       /\ AdminFrame
       /\ IF AdminGate(cid) # "ok"
          THEN /\ uret' = Rejected("update_user", cid, user_id)
               /\ UNCHANGED utable
          ELSE \E admin \in CurrentUser(cid) :
                 LET found == ScopedLookup(utable, user_id, admin)
                 IN  IF found = {}
                     THEN /\ uret' = Answer("update_user", admin, user_id,
                                            "404", {})
                          /\ UNCHANGED utable
                     ELSE \E user \in found :
                            IF /\ update_data.email # None
                               /\ \E u \in utable :
                                     /\ u.email = update_data.email
                                     /\ u.id # user_id
                                     /\ u.tenant_id = admin.tenant_id
                            THEN /\ uret' = Answer("update_user", admin,
                                                   user_id, "409", {})
                                 /\ UNCHANGED utable
                            ELSE LET new == Updated(user, update_data)
                                 IN  /\ utable' = (utable \ {user})
                                                     \cup {new}
                                     /\ uret' = Answer("update_user",
                                                       admin, user_id,
                                                       "200", {new})

\* DELETE /users/{user_id}: 404 when the admin's tenant has no such row,
\* 400 for the admin's own row.
DeleteUser ==
    \E cid \in Callers, user_id \in UserIds :
       /\ AdminFrame
       /\ IF AdminGate(cid) # "ok"
          THEN /\ uret' = Rejected("delete_user", cid, user_id)
               /\ UNCHANGED utable
          ELSE \E admin \in CurrentUser(cid) :
                 LET found == ScopedLookup(utable, user_id, admin)
                 IN  IF found = {}
                     THEN /\ uret' = Answer("delete_user", admin, user_id,
                                            "404", {})
                          /\ UNCHANGED utable
                     ELSE IF \E user \in found : user.id = admin.id
                     THEN /\ uret' = Answer("delete_user", admin, user_id,
                                            "400", {})
                          /\ UNCHANGED utable
                     ELSE /\ utable' = utable \ found
                          /\ uret' = Answer("delete_user", admin, user_id,
                                            "204", {})

-----------------------------------------------------------------------------
InitAudit ==
    /\ committed = {}
    /\ pending = [s \in Sessions |-> {}]
    /\ inflight = [s \in Sessions |-> {}]
    /\ sstate = [s \in Sessions |-> "active"]
    /\ nlogs = 0
    /\ last = [op |-> "none", sess |-> "s1", out |-> "ok", id |-> NULL]

\* No task has a Context: _request_context has default=None.
InitContext ==
    /\ cv = [t \in Tasks |-> None]
    /\ heap = [r \in Requests |-> Unallocated]
    /\ pc = [r \in Requests |-> "idle"]
    /\ nres = 0
    /\ ret = [fn |-> "none", task |-> <<"job", "main">>, absent |-> TRUE,
              explicit |-> {}, out |-> "ok", val |-> None, entry |-> {}]
    /\ inb = [r \in Requests |-> NoInbound]

\* No users-table write is outstanding, the logger has emitted nothing.
InitExt ==
    /\ dirty = [s \in Sessions |-> {}]
    /\ durable = {}
    /\ stream = <<>>
    /\ fret = [op |-> "none", tenant_id |-> None, kwargs |-> {},
               out |-> "ok", result |-> <<>>, id |-> None, emitted |-> <<>>]
    /\ qret = [f |-> NoFilter("a1"), out |-> "none", rows |-> <<>>,
               result |-> <<>>]
    /\ utable = InitialTable
    /\ uret = [op |-> "none", caller |-> NULL, tenant |-> NULL,
               target |-> NULL, out |-> "none", rows |-> {}]

Init == InitAudit /\ InitContext /\ InitExt

NextAudit ==
    \E s \in Sessions :
        \/ LogBegin(s)
        \/ LogFlushOk(s)
        \/ LogFlushFail(s)
        \/ Query(s)
        \/ Commit(s)
        \/ Rollback(s)

NextContext ==
    \/ \E r \in Requests :
          \/ Dispatch(r)
          \/ CallNext(r)
          \/ ResolveIdentity(r)
          \/ Complete(r)
    \/ \E t \in Tasks :
          \/ Get(t)
          \/ FromContext(t)

SpecAudit == Init /\ [][NextAudit]_vars

SpecContext == Init /\ [][NextContext]_vars

\* One request of any kind of InboundAll, its identity resolutions and the
\* entries from_context builds in it.
NextRequest ==
    \/ \E r \in {"rA"} :
          \/ DispatchAny(r)
          \/ CallNext(r)
          \/ ResolveIdentity(r)
          \/ Complete(r)
    \/ \E t \in {<<"rA", "dispatch">>, <<"rA", "handler">>} : FromContext(t)

SpecRequest == Init /\ [][NextRequest]_vars

\* One request whose handler logs entries built by from_context through
\* one session; the stored rows are queried.
NextPipeline ==
    \/ \E r \in {"rA"} :
          \/ DispatchAny(r)
          \/ CallNext(r)
          \/ ResolveIdentity(r)
    \/ \E s \in {"s1"} :
          \/ LogFromContext(<<"rA", "handler">>, s)
          \/ LogFlushOk(s)
          \/ Commit(s)
          \/ Rollback(s)
          \/ QueryTenant(s)

SpecPipeline == Init /\ [][NextPipeline]_vars

\* The user-administration endpoints, called by any user or by nobody.
NextUsers ==
    \/ ListUsers
    \/ GetUser
    \/ CreateUser
    \/ UpdateUser
    \/ DeleteUser

SpecUsers == Init /\ [][NextUsers]_vars

\* Handlers that log audit entries and write to the users table through
\* one session each.
NextTx ==
    \E s \in Sessions :
        \/ LogBegin(s)
        \/ LogFlushOk(s)
        \/ LogFlushFail(s)
        \/ AddUser(s)
        \/ Login(s)
        \/ Commit(s)
        \/ Rollback(s)

SpecTx == Init /\ [][NextTx]_vars

NextFallback ==
    \/ FallbackLog
    \/ FallbackQuery

SpecFallback == Init /\ [][NextFallback]_vars

\* A store of at most MaxRows committed rows, no transaction open.
InitQuery ==
    /\ committed \in {S \in SUBSET StoreRows : Cardinality(S) <= MaxRows}
    /\ pending = [s \in Sessions |-> {}]
    /\ inflight = [s \in Sessions |-> {}]
    /\ sstate = [s \in Sessions |-> "active"]
    /\ nlogs = Cardinality(committed)
    /\ last = [op |-> "commit", sess |-> "s1", out |-> "ok", id |-> NULL]
    /\ InitContext
    /\ InitExt

\* Every session reads the same committed rows: one of them queries.
NextQuery == QueryCall("s1")

SpecQuery == InitQuery /\ [][NextQuery]_vars

-----------------------------------------------------------------------------
(* Properties of the audit store                                           *)

\* C1 (tenant isolation of audit queries): whatever the other filters,
\* limit and offset are, every row a query returns was logged with a
\* tenant_id that names the tenant the query was called with; an entry
\* logged for another tenant is never returned.  Tenants are compared as
\* the UUIDs their tenant_id strings spell.
C1_TenantIsolation ==
    \A s \in Sessions, f \in Filters :
        QueryAccepts(f) =>
            \A rs \in SelectRows(s, f) : \A i \in DOMAIN rs :
                ParseUUID(rs[i].logged.tenant_id) = ParseUUID(f.tenant_id)

\* A query has run in a session that sees rows of two different tenants.
C1_Witness ==
    /\ last.op = "query" /\ last.out = "ok"
    /\ \E r1, r2 \in Visible(last.sess) :
          /\ ParseUUID(r1.logged.tenant_id) # ParseUUID(r2.logged.tenant_id)
          /\ \E f \in Filters : QueryAccepts(f) /\ Matches(r1, f)


\* The default query for the tenant of row r, run in session s, returns r
\* (in whatever order rows of equal timestamp come).
Finds(s, r) ==
    \A rs \in SelectRows(s, NoFilter(r.logged.tenant_id)) :
        \E i \in DOMAIN rs : rs[i] = r

\* A step of a log or query call of some session.
LoggerStep ==
    \E s \in Sessions :
        LogBegin(s) \/ LogFlushOk(s) \/ LogFlushFail(s) \/ Query(s)

C5_DurableAfterLog ==
    [][\A r \in AllRows : (\E s \in Sessions : Finds(s, r))']_auditVars

\* C5 as amended: a record is found by every session's query in every
\* later state once its transaction has committed; before that it is found
\* by the queries of the session that logged it, until that session rolls
\* back.
C5_DurableOnceCommitted ==
    [][/\ \A r \in committed : \A s \in Sessions : Finds(s, r)'
       /\ \A s \in Sessions : \A r \in pending[s] :
             Finds(s, r)' \/ Rollback(s)]_auditVars

\* A record logged by one session and committed is seen by the other one.
C5_Witness ==
    /\ last.op = "commit"
    /\ \E r \in committed : \A s \in Sessions : Finds(s, r)

\* C6 (log never fails silently): a log call that returns an id has
\* written the row with that id in its session; a call that wrote nothing
\* ended in an exception and returned no id.
C6_NoSilentFailure ==
    last.op = "log" =>
        /\ last.out = "ok" =>
              /\ last.id # NULL
              /\ \E r \in pending[last.sess] : r.id = last.id
        /\ last.out # "ok" =>
              /\ last.id = NULL
              /\ last.out \in {"ValueError", "DBAPIError"}

\* A flush has failed and log has raised.
C6_Witness ==
    /\ last.op = "log" /\ last.out = "DBAPIError"
    /\ sstate[last.sess] = "inactive"

\* C7 (round trip): for every entry log has accepted, a query for the
\* entry's tenant_id returns an entry equal to it in every field.
C7_RoundTrip ==
    \A s \in Sessions :
        sstate[s] = "active" =>
            \A r \in Visible(s) :
                \E es \in QueryResults(s, NoFilter(r.logged.tenant_id)) :
                    \E i \in DOMAIN es : es[i] = r.logged

-----------------------------------------------------------------------------
(* Properties of the request context                                       *)

\* C2 (no cross-request leakage): in every interleaving of the requests'
\* tasks, the Context a task of request B has as its ambient value, and so
\* the one get_request_context() / get_optional_request_context() return
\* to it, is the one B's own dispatch established, never the Context of
\* another request; code outside any request has none.
C2_NoCrossRequestLeak ==
    /\ \A t \in Tasks : cv[t] # None => cv[t] = t[1]
    /\ ret.fn \in {"get_request_context", "get_optional_request_context"}
          => ret.val \in {None, ret.task[1]}

\* Both requests are being handled, each with its Context established, and
\* the handler of one of them has just asked for its Context.
C2_Witness ==
    /\ \A r \in Requests : pc[r] = "handling"
    /\ ret.fn = "get_request_context" /\ ret.out = "ok"
    /\ ret.task[2] = "handler"

\* C8 (explicit-context requirement): from_context called without an
\* ambient Context and without an explicit tenant_id fails and builds no
\* entry; the tenant_id of every entry it builds is the one the caller
\* passed or the one of the caller's ambient Context.
C8_ExplicitContext ==
    ret.fn = "from_context" =>
        /\ (ret.absent /\ "tenant_id" \notin Names(ret.explicit)) =>
              (ret.out # "ok" /\ ret.entry = {})
        /\ \A e \in ret.entry :
              IF "tenant_id" \in Names(ret.explicit)
              THEN e.tenant_id = Arg(ret.explicit, "tenant_id")
              ELSE /\ cv[ret.task] # None
                   /\ e.tenant_id = heap[cv[ret.task]].tenant_id

\* from_context has been called outside any Context with no tenant_id.
C8_Witness ==
    /\ ret.fn = "from_context" /\ ret.absent
    /\ "tenant_id" \notin Names(ret.explicit)
    /\ ret.out = "ValidationError"

\* C9 (NoContext): get_request_context(), get_tenant_id() and
\* get_request_id() called by a task that has no Context raise and return
\* nothing; get_optional_request_context() then returns None and does not
\* raise.
C9_NoContext ==
    ret.absent =>
        /\ ret.fn \in {"get_request_context", "get_tenant_id", "get_request_id"}
              => (ret.out = "RuntimeError" /\ ret.val = None)
        /\ ret.fn = "get_optional_request_context"
              => (ret.out = "ok" /\ ret.val = None)

\* get_tenant_id() has been called outside any request while a request's
\* Context is established elsewhere.
C9_Witness ==
    /\ ret.fn = "get_tenant_id" /\ ret.absent /\ ret.out = "RuntimeError"
    /\ \E r \in Requests : pc[r] = "handling"

IdentityOf(c) == <<c.user_id, c.user_email, c.user_roles, c.tenant_id>>

\* C10 (single identity resolution): once a Context has a resolved user,
\* no later identity resolution overwrites its user_id, user_email,
\* user_roles or tenant_id.
C10_SingleResolution ==
    [][\A r \in Requests :
         heap[r].user_id # None => IdentityOf(heap'[r]) = IdentityOf(heap[r])]_ctxVars

\* What task t reads through get_request_context(): the fields of the
\* RequestContext object its context holds.
View(t) == IF cv[t] = None THEN None ELSE heap[cv[t]]

\* C11 (fork snapshot): while the handler's task, the child call_next
\* spawned, runs, nothing it writes to a Context field changes what the
\* parent task reads from its own Context.
C11_ForkSnapshot ==
    [][\A r \in Requests :
         (pc[r] = "handling" /\ pc'[r] = "handling")
            => View(<<r, "dispatch">>)' = View(<<r, "dispatch">>)]_vars

\* The fields a Context is established with and keeps: the request id and
\* the client metadata.
Established(c) == <<c.request_id, c.client_ip, c.user_agent>>

\* C12 (context survives suspension): from the moment a request's Context
\* is established until the request completes, get_request_context() in
\* any task running for the request returns that request's own Context,
\* and the request_id, client_ip and user_agent of that Context stay the
\* ones it was established with, whatever other requests do in between.
C12_SurvivesSuspension ==
    [][\A r \in Requests :
         /\ pc[r] \in {"established", "handling"}
               => Established(heap'[r]) = Established(heap[r])
         /\ \A t \in Tasks :
               (t[1] = r /\ pc'[r] # "idle" /\ Running(t)')
                  => GetRequestContext(t)' = [out |-> "ok", val |-> r]]_vars

\* The handler of rA has read its request id while rB, established with
\* another request id, is being handled too, and after an identity
\* resolution has written to a Context.
C12_Witness ==
    /\ pc["rA"] = "handling" /\ pc["rB"] = "handling"
    /\ heap["rA"].request_id # heap["rB"].request_id
    /\ nres > 0
    /\ ret.fn = "get_request_id" /\ ret.task = <<"rA", "handler">>
    /\ ret.out = "ok" /\ ret.val = heap["rA"].request_id

\* C13 (context teardown): once a request has completed, the Context its
\* dispatch installed is no longer what _request_context holds in the
\* context of the task that installed it.
C13_Teardown ==
    \A r \in Requests :
        pc[r] = "done" => cv[<<r, "dispatch">>] = None

-----------------------------------------------------------------------------
(* Properties of the session's transaction                                 *)

C20_LoginAudit ==
    [][(last'.op = "login" /\ last' # last) =>
          LET new == AllRows' \ AllRows
          IN  /\ Cardinality(new) = 1
              /\ \A r \in new :
                    /\ last'.out = "ok"
                          => /\ r.action = "login" /\ r.success
                             /\ r.actor_id = last'.id
                    /\ last'.out = "401"
                          => /\ r.action = "login_failed" /\ ~r.success
                             /\ r.error_message # None]_vars

-----------------------------------------------------------------------------
(* Properties of the result of query                                       *)

Range(sq) == {sq[i] : i \in DOMAIN sq}

\* C15 (query ordering): of every two entries query returned, the one at
\* the earlier position has a timestamp greater than or equal to the
\* other's.
C15_QueryOrdering ==
    qret.out = "ok" =>
        \A i, j \in DOMAIN qret.result :
            i < j => qret.result[i].timestamp >= qret.result[j].timestamp

\* An unfiltered query has returned three entries of three different
\* timestamps.
C15_Witness ==
    /\ qret.out = "ok" /\ Len(qret.result) = 3
    /\ qret.result[1].timestamp > qret.result[2].timestamp
    /\ qret.result[2].timestamp > qret.result[3].timestamp

\* The exact-match filters the caller supplied (did not leave None), as
\* pairs of the field and the supplied value.
Supplied(f) ==
    { p \in { <<"actor_id", f.actor_id>>,
              <<"resource_type", f.resource_type>>,
              <<"resource_id", f.resource_id>>,
              <<"action", f.action>> } : p[2] # None }

\* The value entry e has in the field named.
Field(e, name) ==
    CASE name = "actor_id" -> e.actor_id
      [] name = "resource_type" -> e.resource_type
      [] name = "resource_id" -> e.resource_id
      [] OTHER -> e.action

\* C16 (conjunctive filters): every entry query returned is of the tenant
\* asked for and has, in every field the caller supplied a filter for
\* (the empty string included), the supplied value; and the unpaged
\* result has every stored entry of the tenant that has the supplied
\* value in every such field.
C16_ConjunctiveFilters ==
    qret.out = "ok" =>
        /\ \A i \in DOMAIN qret.result :
              /\ qret.result[i].tenant_id = qret.f.tenant_id
              /\ \A p \in Supplied(qret.f) :
                    Field(qret.result[i], p[1]) = p[2]
        /\ (qret.f.limit = DefaultLimit /\ qret.f.offset = 0
               /\ qret.f.start_time = NoTime /\ qret.f.end_time = NoTime)
              => \A r \in Visible("s1") :
                   ( /\ ToEntry(r).tenant_id = qret.f.tenant_id
                     /\ \A p \in Supplied(qret.f) :
                           Field(ToEntry(r), p[1]) = p[2] )
                      => r \in Range(qret.rows)

\* The rows of tenant t with a timestamp from s to e, both included.
InRange(t, s, e) ==
    {r \in Visible("s1") : /\ r.tenant_id = ParseUUID(t)
                            /\ s <= r.timestamp /\ r.timestamp <= e}

\* C17 (time-range filter): a query with start_time = s and end_time = e
\* and no other filter returns exactly the tenant's entries with
\* s <= timestamp <= e, each once, latest first; when the tenant has
\* entries at T-2h, T-1h and T (1, 3 and 5) and the range is [T-90m, T]
\* (2 to 5), the result is the entry of T, then the entry of T-1h.
C17_TimeRange ==
    ( /\ qret.out = "ok"
      /\ qret.f.start_time # NoTime /\ qret.f.end_time # NoTime )
       => LET want == InRange(qret.f.tenant_id, qret.f.start_time,
                              qret.f.end_time)
          IN  /\ Range(qret.rows) = want
              /\ Len(qret.rows) = Cardinality(want)
              /\ \A i, j \in DOMAIN qret.rows :
                    i < j => qret.rows[i].timestamp >= qret.rows[j].timestamp
              /\ ( /\ {r.timestamp : r \in InRange(qret.f.tenant_id, 1, 5)}
                          = {1, 3, 5}
                   /\ Cardinality(InRange(qret.f.tenant_id, 1, 5)) = 3
                   /\ qret.f.start_time = 2 /\ qret.f.end_time = 5 )
                    => /\ Len(qret.result) = 2
                       /\ qret.result[1].timestamp = 5
                       /\ qret.result[2].timestamp = 3

\* The scenario: tenant a1 has entries at 1, 3 and 5, the query for
\* [2, 5] has returned two.
C17_Witness ==
    /\ qret.out = "ok" /\ qret.f.tenant_id = "a1"
    /\ qret.f.start_time = 2 /\ qret.f.end_time = 5
    /\ {r.timestamp : r \in InRange("a1", 1, 5)} = {1, 3, 5}
    /\ Cardinality(InRange("a1", 1, 5)) = 3
    /\ Len(qret.result) = 2

\* The rows matching the filters of f, whatever the page.
Matching(f) == {r \in Visible("s1") : Matches(r, f)}

\* The page is at most limit long and is the rows at positions
\* offset .. offset + limit - 1 of a timestamp-descending arrangement of
\* the matching rows.
IsPage(rows, f) ==
    /\ Len(rows) <= f.limit
    /\ \E sq \in OrderByTimestampDesc(Matching(f)) :
          rows = SubSeq(sq, f.offset + 1,
                        IF f.offset + Len(rows) < Len(sq)
                        THEN f.offset + Len(rows) ELSE Len(sq))
    /\ Len(rows) = IF Cardinality(Matching(f)) - f.offset < 0 THEN 0
                   ELSE IF Cardinality(Matching(f)) - f.offset < f.limit
                        THEN Cardinality(Matching(f)) - f.offset
                        ELSE f.limit

\* Whatever the next page (the same call with offset + limit) returns on
\* the unchanged store, the two pages together are 2 * limit consecutive
\* positions of one arrangement: nothing skipped, nothing repeated.
NextPageFollows ==
    LET f == qret.f
        g == [f EXCEPT !.offset = f.offset + f.limit]
    IN  \A next \in SelectRows("s1", g) :
            IsPage(qret.rows \o next, [f EXCEPT !.limit = 2 * f.limit])

\* C18 as claimed (paging): a page is the entries at positions
\* O .. O+L-1 of the timestamp-descending sequence of the matching
\* entries, and successive pages of an unchanged store neither skip nor
\* repeat an entry.
C18_Paging ==
    qret.out = "ok" => (IsPage(qret.rows, qret.f) /\ NextPageFollows)

\* C18 as amended: successive pages neither skip nor repeat an entry when
\* no two matching entries have the same timestamp.
C18_PagingDistinctTimestamps ==
    qret.out = "ok" =>
        /\ IsPage(qret.rows, qret.f)
        /\ (\A r1, r2 \in Matching(qret.f) :
               r1 # r2 => r1.timestamp # r2.timestamp)
              => NextPageFollows

\* The second page of one entry has been returned out of three matching
\* entries of three different timestamps.
C18_Witness ==
    /\ qret.out = "ok" /\ qret.f.limit = 1 /\ qret.f.offset = 1
    /\ Len(qret.rows) = 1
    /\ Cardinality(Matching(qret.f)) = 3
    /\ \A r1, r2 \in Matching(qret.f) :
          r1 # r2 => r1.timestamp # r2.timestamp

-----------------------------------------------------------------------------
(* Properties of LoggingAuditLogger                                        *)

\* What the caller of a query call has in hand when it ends: how it
\* ended and the list returned.
CallerSees(out, result) == [out |-> out, result |-> result]

\* C19 (fallback query): LoggingAuditLogger.query returns the empty list
\* whatever the tenant_id and the filters and whatever was logged before,
\* and emits one warning; what its caller has in hand differs from what
\* the caller of a DatabaseAuditLogger.query matching no record has.
C19_FallbackQuery ==
    fret.op = "query" =>
        /\ fret.out = "ok" /\ fret.result = <<>>
        /\ Len(fret.emitted) = 1 /\ fret.emitted[1].level = "WARNING"
        /\ stream # <<>> /\ stream[Len(stream)] = fret.emitted[1]
        /\ \A s \in Sessions, f \in Filters :
              \A res \in QueryResults(s, f) :
                 (QueryAccepts(f) /\ res = <<>>)
                    => CallerSees(fret.out, fret.result)
                          # CallerSees(QueryOutcome(f), res)

\* C19, the part that holds: the empty list and one warning, whatever the
\* arguments and whatever was logged before.
C19_EmptyWithWarning ==
    fret.op = "query" =>
        /\ fret.out = "ok" /\ fret.result = <<>>
        /\ Len(fret.emitted) = 1 /\ fret.emitted[1].level = "WARNING"
        /\ stream # <<>> /\ stream[Len(stream)] = fret.emitted[1]

\* query has been called for a tenant an entry was logged for before.
C19_Witness ==
    /\ fret.op = "query"
    /\ \E i \in DOMAIN stream :
          \E x \in stream[i].extra : x.tenant_id = fret.tenant_id

-----------------------------------------------------------------------------
(* Properties of from_context, dispatch and identity resolution            *)

\* A step in which from_context, called where a Context is ambient, ends.
FromContextReturns ==
    /\ ret' # ret
    /\ ret'.fn = "from_context" /\ ~ret'.absent

\* C23 (from_context population): the entry from_context builds where a
\* Context is ambient has the Context's client_ip as actor_ip, its
\* tenant_id, request_id and session_id, and as actor_id the Context's
\* user_id, or "anonymous" when the Context has no resolved user.
C23_Population ==
    [][(FromContextReturns /\ ret'.out = "ok") =>
          LET c == heap[cv[ret'.task]]
          IN  \A e \in ret'.entry :
                /\ e.actor_ip = c.client_ip
                /\ e.tenant_id = c.tenant_id
                /\ e.request_id = c.request_id
                /\ e.session_id = c.session_id
                /\ e.actor_id = IF c.user_id # None THEN c.user_id
                                ELSE "anonymous"]_vars

\* from_context has built an entry for a resolved user in a request that
\* came with a forwarded address.
C23_Witness ==
    /\ ret.fn = "from_context" /\ ~ret.absent /\ ret.out = "ok"
    /\ \E e \in ret.entry :
          /\ e.actor_id = "a1" /\ e.actor_ip = "10.9.9.9"
          /\ e.request_id = "c3"

\* C24 (from_context overlay): where a Context is ambient, from_context
\* builds an entry in which every extra field has the supplied value,
\* also when the Context supplies that field too.
C24_Overlay ==
    [][FromContextReturns =>
          /\ ret'.out = "ok"
          /\ \A e \in ret'.entry : \A p \in ret'.explicit :
                e[p[1]] = p[2]]_vars

\* The first comma-separated entry of an X-Forwarded-For value.
FirstEntry(h) == Spell(Strip(SplitFirst(h)))

\* C26 (client IP precedence): the client_ip of an established Context is
\* the first entry of X-Forwarded-For when the header is there and not
\* empty, otherwise the transport-level client address, otherwise None.
C26_ClientIpPrecedence ==
    \A r \in Requests :
        pc[r] # "idle" =>
            heap[r].client_ip =
                IF inb[r].x_forwarded_for # None
                      /\ inb[r].x_forwarded_for # <<>>
                THEN FirstEntry(inb[r].x_forwarded_for)
                ELSE inb[r].client

\* A request came with a forwarded address and a transport address; its
\* Context has the forwarded one.
C26_Witness ==
    /\ pc["rA"] = "handling"
    /\ inb["rA"].client = "10.0.0.1"
    /\ inb["rA"].x_forwarded_for # None
    /\ heap["rA"].client_ip = "10.9.9.9"

\* C28 (verified tenant overrides the header): a Context with a resolved
\* user has the tenant_id of that user, an active one, whatever
\* X-Tenant-ID the request came with, and every entry from_context can
\* build in the request from then on carries that tenant_id.
C28_VerifiedTenant ==
    \A r \in Requests :
        heap[r].user_id # None =>
            \E usr \in Users :
                /\ usr.is_active
                /\ heap[r].user_id = StrUUID(usr.id)
                /\ heap[r].tenant_id = StrUUID(usr.tenant_id)
                /\ \A t \in Tasks, kw \in ExtraFields, u \in Uuid4Values :
                      LET res == FromContextCall(t, "read", "user", "r1",
                                                 kw, u)
                      IN  (cv[t] = r /\ res.out = "ok")
                             => \A e \in res.entry :
                                   e.tenant_id = StrUUID(usr.tenant_id)

\* A request that came with X-Tenant-ID a1 has resolved a user of tenant
\* b2, and from_context has then built an entry of tenant b2 in it.
C28_Witness ==
    /\ ret.fn = "from_context" /\ ret.out = "ok"
    /\ ret.task[1] \in Requests
    /\ inb[ret.task[1]].x_tenant_id = "a1"
    /\ heap[ret.task[1]].user_id = "b2"
    /\ \E e \in ret.entry : e.tenant_id = "b2" /\ e.actor_id = "b2"

\* C29 (failed identity resolution is a no-op): get_current_user_optional
\* finds no user for no credentials, for a token that is invalid or not
\* an access token, and for a subject that is no active user; a call
\* that returns no user leaves every Context, and what every task has as
\* its ambient Context, as they were.
C29_FailedResolutionNoOp ==
    [][/\ \A cred \in Credentials :
            ( \/ cred = None
              \/ VerifyAccessToken(cred) = None
              \/ ~\E usr \in Users :
                     /\ usr.is_active
                     /\ usr.id = ParseUUID(VerifyAccessToken(cred)) )
               => ResolveUser(cred) = {}
       /\ ( /\ ret' # ret
            /\ ret'.fn = "get_current_user_optional"
            /\ ret'.val = None /\ ret'.out = "ok" )
              => (heap' = heap /\ cv' = cv)]_vars

\* A resolution has returned no user on a Context that an earlier
\* resolution gave an identity.
C29_Witness ==
    /\ ret.fn = "get_current_user_optional" /\ ret.val = None
    /\ ret.out = "ok" /\ ret.task[1] \in Requests
    /\ heap[ret.task[1]].user_id = "a1"
    /\ inb[ret.task[1]].x_tenant_id = "b2"

-----------------------------------------------------------------------------
(* Properties of entries built by from_context and logged                  *)

\* The entry row r was logged from names, as its resource, a users-table
\* row of tenant b, and has as its actor an admin of tenant a.
AdminActsAcross(r, a, b) ==
    /\ r.logged.resource_type = "user"
    /\ \E target \in Users :
          /\ r.logged.resource_id = StrUUID(target.id)
          /\ target.tenant_id = b
    /\ \E adm \in Users :
          /\ r.logged.actor_id = StrUUID(adm.id)
          /\ adm.tenant_id = a
          /\ \E i \in DOMAIN adm.roles : adm.roles[i] = "admin"

\* C21 (actor-tenant attribution): the entry an authenticated admin of
\* tenant a builds by from_context on a resource of another tenant b is
\* stored with tenant_id a, and no query for tenant b returns it, whatever
\* its other arguments, in any later state.
C21_ActorTenantAttribution ==
    \A r \in AllRows : \A a, b \in {u.tenant_id : u \in Users} :
        (a # b /\ AdminActsAcross(r, a, b)) =>
            /\ r.tenant_id = a
            /\ \A s \in Sessions, f \in Filters :
                  (QueryAccepts(f) /\ ParseUUID(f.tenant_id) = b)
                     => \A rs \in SelectRows(s, f) :
                           \A i \in DOMAIN rs : rs[i] # r

\* The entry of admin a1 on the row of user b2, built in a request that
\* came with X-Tenant-ID b2, is committed, and a query for tenant b2 has
\* run.
C21_Witness ==
    /\ last.op = "query" /\ last.out = "ok"
    /\ inb["rA"].x_tenant_id = "b2"
    /\ \E r \in committed : AdminActsAcross(r, 1, 2)
    /\ \E f \in TenantFilters :
          /\ f.tenant_id = "b2"
          /\ last.out = QueryOutcome(f)

\* C30 (every established Context is loggable): log accepts the entry
\* from_context builds, without extra fields, in any established Context,
\* and the AuditLog row it writes has the tenant_id and the request_id of
\* that Context.
C30_EstablishedLoggable ==
    [][(nlogs' = nlogs + 1 /\ ret'.explicit = {} /\ ~ret'.absent) =>
          LET c == heap[cv[ret'.task]]
          IN  \E a \in inflight'["s1"] :
                /\ a.logged.tenant_id = c.tenant_id
                /\ a.logged.request_id = c.request_id
                /\ a.tenant_id = ParseUUID(c.tenant_id)
                /\ a.request_id = ParseUUID(c.request_id)]_vars

-----------------------------------------------------------------------------
(* Properties of sequential and repeated log calls                         *)

\* C22 (in-request ordering): in the sequential code path of one request
\* (one session), the write of an entry starts only when the log call
\* before it has returned or raised, so at most one write of the request
\* is in flight and the calls end in call order, whatever the other
\* sessions do.
C22_InRequestOrder ==
    [][\A s \in Sessions :
          /\ Cardinality(inflight'[s]) <= 1
          /\ (inflight'[s] # {} /\ inflight'[s] # inflight[s])
                => inflight[s] = {}]_vars

\* The first log call of session s1 has returned its id and the write of
\* the second is in flight.
C22_Witness ==
    /\ nlogs = 2
    /\ pending["s1"] # {}
    /\ inflight["s1"] # {}
    /\ inflight["s2"] = {} /\ pending["s2"] = {}

\* The log call of session s returns an id in this step.
LogReturns(s) ==
    /\ inflight[s] # {}
    /\ inflight'[s] = {}
    /\ last'.op = "log" /\ last'.sess = s /\ last'.out = "ok"

\* C25 (one record per log call): a log call that returns adds exactly one
\* row, the AuditLog of its entry under the returned id, an id no stored
\* row has, and leaves every stored row as it was; an entry equal to a
\* stored one is written again.
C25_OneRecordPerLog ==
    [][\A s \in Sessions :
          LogReturns(s) =>
             \E a \in inflight[s] :
                LET r == [a EXCEPT !.id = last'.id]
                IN  /\ r \notin AllRows
                    /\ \A x \in AllRows : x.id # r.id
                    /\ AllRows' = AllRows \cup {r}
                    /\ pending'[s] = pending[s] \cup {r}
                    /\ committed' = committed]_vars

\* The same entry was logged twice and is stored in two rows that differ
\* in their id only.
C25_Witness ==
    /\ last.op = "log" /\ last.out = "ok"
    /\ \E r1, r2 \in AllRows :
          /\ r1.id # r2.id
          /\ r1.logged = r2.logged
          /\ r2 = [r1 EXCEPT !.id = r2.id]

-----------------------------------------------------------------------------
(* Properties of user administration                                       *)

\* C27 (tenant scoping of user administration): a call of list_users,
\* get_user, create_user, update_user or delete_user leaves every row of
\* a tenant other than the calling admin's as it was and adds no such
\* row, returns rows of the admin's tenant only, and answers 404 when the
\* user_id it is given names a row of another tenant.
C27_TenantScoped ==
    [][LET t == uret'.tenant
       IN  /\ \A u \in utable : u.tenant_id # t => u \in utable'
           /\ \A u \in utable' : u.tenant_id # t => u \in utable
           /\ \A u \in uret'.rows : u.tenant_id = t
           /\ (/\ t # NULL
               /\ \E u \in utable : /\ u.id = uret'.target
                                     /\ u.tenant_id # t)
                 => uret'.out = "404"]_vars

\* An admin has updated a row of the own tenant, and an update addressed
\* to a row of the other tenant was answered 404.
C27_Witness ==
    /\ uret.op = "update_user" /\ uret.out = "404"
    /\ \E u \in utable : u.id = uret.target /\ u.tenant_id # uret.tenant
    /\ \E u \in utable : u.full_name = "Zed"
    /\ \E u \in utable : u.id > 4

====
